---- MODULE Spec2Model ----
(***************************************************************************)
(* Model of scripts/python/mig_load_data.py: the batch loader that stages  *)
(* <table>.csv.gz files into the internal stage MIGRATION_LOAD_STAGE,      *)
(* COPYs them into their tables and archives them from 'not_processed' to  *)
(* 'processed'.                                                            *)
(*                                                                         *)
(* The warehouse is the environment.  Every statement either returns or    *)
(* raises.  A statement that returned has taken effect; one the warehouse  *)
(* rejected (ProgrammingError) has not; one that raised any other          *)
(* exception (e.g. the connection dropped) may or may not have taken       *)
(* effect.  The stage outlives the process, so a terminated run may be     *)
(* followed by another run over the same stage.  DATA_TABLES_TO_EXPORT     *)
(* names each table once; a table is identified with its position in that  *)
(* list.                                                                   *)
(***************************************************************************)
EXTENDS Integers, Sequences, FiniteSets

\* ---- bounds ----
NumTables == 2      \* length of DATA_TABLES_TO_EXPORT
MaxRuns == 2        \* runs of the script over the same stage
MaxBadRows == 1     \* malformed rows a local file may contain

\* ---- program constants (lines 8-9, 72-73) ----
PATH_TODO == "not_processed"
PATH_DONE == "processed"
ON_ERROR == "CONTINUE"
PURGE_TRUE == TRUE
PURGE == FALSE

DATA_TABLES_TO_EXPORT == 1..NumTables
Prefixes == {PATH_TODO, PATH_DONE}
Results == {"ok", "ProgrammingError", "Exception"}
Errors == Results \ {"ok"}

VARIABLES
    pc,          \* position of main()
    idx,         \* position of the for loop in DATA_TABLES_TO_EXPORT
    table,       \* loop variable `table` (0 before the loop)
    closeCount,  \* calls of conn.close() in this run
    exitCode,    \* status the process exits with (read when pc = "exited")
    stage,       \* stage prefix -> tables whose file is under it
    localFiles,  \* tables whose <table>.csv.gz exists in OUTPUT_DIR_DATA
    badRows,     \* table -> malformed rows of its local file
    loaded,      \* tables whose COPY INTO returned in this run
    rejected,    \* table -> rows its COPY INTO skipped in this run
    issued,      \* calls made in this run, in order, with their outcome
    skipped,     \* tables skipped in this run
    reported,    \* tables for which 'LOAD FAILED for <table>' was printed
    runs         \* runs started so far

vars == <<pc, idx, table, closeCount, exitCode, stage, localFiles, badRows,
          loaded, rejected, issued, skipped, reported, runs>>

\* the local directory: which files exist and how many bad rows each has
\* d[t] = 0: no file for t; d[t] = k + 1: a file with k malformed rows
LocalDirs == [DATA_TABLES_TO_EXPORT -> 0..(MaxBadRows + 1)]

FilesOf(d) == { t \in DATA_TABLES_TO_EXPORT : d[t] > 0 }
BadRowsOf(d) == [t \in DATA_TABLES_TO_EXPORT |-> IF d[t] > 0 THEN d[t] - 1 ELSE 0]

\* whether a statement with outcome r has taken effect in the warehouse
Applied(r) ==
    CASE r = "ok" -> {TRUE}
      [] r = "ProgrammingError" -> {FALSE}
      [] r = "Exception" -> {TRUE, FALSE}

Call(stmt, t, result) == [stmt |-> stmt, table |-> t, result |-> result]

\* os.path.exists(file_path_local), line 43
exists_always(t) == TRUE
exists(t) == t \in localFiles

\* the statement that follows a statement that returned, lines 54-90
AfterOk_swapped(stmt) ==
    CASE stmt = "put_todo" -> "copy"
      [] stmt = "copy" -> "remove"
      [] stmt = "remove" -> "put_done"
      [] stmt = "put_done" -> "for"
AfterOk(stmt) ==
    CASE stmt = "put_todo" -> "copy"
      [] stmt = "copy" -> "put_done"
      [] stmt = "put_done" -> "remove"
      [] stmt = "remove" -> "for"

\* the handler an exception raised by a statement reaches, lines 76, 92, 98
Handler_swallow(stmt, kind) == "for"
Handler(stmt, kind) ==
    IF stmt \in {"copy", "put_done", "remove"} /\ kind = "ProgrammingError"
    THEN "inner_except"
    ELSE "outer_except"

\* prefix the archive PUT writes to, line 89
ArchivePrefix_todo == PATH_TODO
ArchivePrefix == PATH_DONE

\* COPY INTO ... ON_ERROR = <on_error>: does it return for a file with
\* `bad` malformed rows (lines 63-74)
CopyReturns(on_error, bad) == on_error = "CONTINUE" \/ bad = 0

Init ==
    /\ pc = "start"
    /\ idx = 0
    /\ table = 0
    /\ closeCount = 0
    /\ exitCode = 0
    /\ stage = [p \in Prefixes |-> {}]
    /\ \E d \in LocalDirs :
         /\ localFiles = FilesOf(d)
         /\ badRows = BadRowsOf(d)
    /\ loaded = {}
    /\ rejected = [t \in DATA_TABLES_TO_EXPORT |-> 0]
    /\ issued = <<>>
    /\ skipped = {}
    /\ reported = {}
    /\ runs = 1

\* line 24: conn = get_connection(), outside the try
GetConnection ==
    /\ pc = "start"
    /\ \E r \in Results :
         /\ issued' = Append(issued, Call("connect", 0, r))
         /\ IF r = "ok"
            THEN pc' = "cursor" /\ exitCode' = exitCode
            ELSE pc' = "exited" /\ exitCode' = 1
    /\ UNCHANGED <<idx, table, closeCount, stage, localFiles, badRows,
                   loaded, rejected, skipped, reported, runs>>

\* line 25: cur = conn.cursor(), outside the try
Cursor ==
    /\ pc = "cursor"
    /\ \E r \in Results :
         /\ issued' = Append(issued, Call("cursor", 0, r))
         /\ IF r = "ok"
            THEN pc' = "use_schema" /\ exitCode' = exitCode
            ELSE pc' = "exited" /\ exitCode' = 1
    /\ UNCHANGED <<idx, table, closeCount, stage, localFiles, badRows,
                   loaded, rejected, skipped, reported, runs>>

\* line 31: USE SCHEMA
UseSchema ==
    /\ pc = "use_schema"
    /\ \E r \in Results :
         /\ issued' = Append(issued, Call("use_schema", 0, r))
         /\ pc' = IF r = "ok" THEN "create_stage" ELSE Handler("use_schema", r)
    /\ UNCHANGED <<idx, table, closeCount, exitCode, stage, localFiles,
                   badRows, loaded, rejected, skipped, reported, runs>>

\* lines 34-37: CREATE STAGE IF NOT EXISTS
CreateStage ==
    /\ pc = "create_stage"
    /\ \E r \in Results :
         /\ issued' = Append(issued, Call("create_stage", 0, r))
         /\ pc' = IF r = "ok" THEN "for" ELSE Handler("create_stage", r)
    /\ UNCHANGED <<idx, table, closeCount, exitCode, stage, localFiles,
                   badRows, loaded, rejected, skipped, reported, runs>>

\* lines 39-45: the for statement takes the next table; a table without a
\* local file is skipped (continue)
ForNext ==
    /\ pc = "for"
    /\ IF idx >= NumTables
       THEN /\ pc' = "finally"
            /\ UNCHANGED <<idx, table, skipped>>
       ELSE /\ idx' = idx + 1
            /\ table' = idx + 1
            /\ IF exists(idx + 1)
               THEN pc' = "put_todo" /\ skipped' = skipped
               ELSE pc' = "for" /\ skipped' = skipped \cup {idx + 1}
    /\ UNCHANGED <<closeCount, exitCode, stage, localFiles, badRows, loaded,
                   rejected, issued, reported, runs>>

\* line 54: PUT file://... @STAGE/not_processed/ OVERWRITE=TRUE
PutTodo ==
    /\ pc = "put_todo"
    /\ \E r \in Results :
         /\ issued' = Append(issued, Call("put_todo", table, r))
         /\ \E a \in Applied(r) :
              stage' = IF a
                       THEN [stage EXCEPT ![PATH_TODO] = @ \cup {table}]
                       ELSE stage
         /\ pc' = IF r = "ok" THEN AfterOk("put_todo") ELSE Handler("put_todo", r)
    /\ UNCHANGED <<idx, table, closeCount, exitCode, localFiles, badRows,
                   loaded, rejected, skipped, reported, runs>>

\* lines 63-79: COPY INTO "<table>" FROM @STAGE/not_processed/<file>
\* ON_ERROR = 'CONTINUE' PURGE = FALSE
CopyInto ==
    /\ pc = "copy"
    /\ \E r \in Results :
         LET res == IF r = "ok" /\ ~CopyReturns(ON_ERROR, badRows[table])
                    THEN "ProgrammingError" ELSE r
         IN /\ issued' = Append(issued, Call("copy", table, res))
            /\ \E a \in Applied(res) :
                 stage' = IF a /\ PURGE
                          THEN [stage EXCEPT ![PATH_TODO] = @ \ {table}]
                          ELSE stage
            /\ IF res = "ok"
               THEN /\ loaded' = loaded \cup {table}
                    /\ rejected' = [rejected EXCEPT ![table] = badRows[table]]
                    /\ pc' = AfterOk("copy")
               ELSE /\ UNCHANGED <<loaded, rejected>>
                    /\ pc' = Handler("copy", res)
    /\ UNCHANGED <<idx, table, closeCount, exitCode, localFiles, badRows,
                   skipped, reported, runs>>

\* line 89: PUT file://... @STAGE/processed/ OVERWRITE=TRUE
PutDone ==
    /\ pc = "put_done"
    /\ \E r \in Results :
         /\ issued' = Append(issued, Call("put_done", table, r))
         /\ \E a \in Applied(r) :
              stage' = IF a
                       THEN [stage EXCEPT ![ArchivePrefix] = @ \cup {table}]
                       ELSE stage
         /\ pc' = IF r = "ok" THEN AfterOk("put_done") ELSE Handler("put_done", r)
    /\ UNCHANGED <<idx, table, closeCount, exitCode, localFiles, badRows,
                   loaded, rejected, skipped, reported, runs>>

\* line 90: REMOVE @STAGE/not_processed/<file>
Remove ==
    /\ pc = "remove"
    /\ \E r \in Results :
         /\ issued' = Append(issued, Call("remove", table, r))
         /\ \E a \in Applied(r) :
              stage' = IF a
                       THEN [stage EXCEPT ![PATH_TODO] = @ \ {table}]
                       ELSE stage
         /\ pc' = IF r = "ok" THEN AfterOk("remove") ELSE Handler("remove", r)
    /\ UNCHANGED <<idx, table, closeCount, exitCode, localFiles, badRows,
                   loaded, rejected, skipped, reported, runs>>

\* lines 92-96: except ProgrammingError: print 'LOAD FAILED', re-raise
InnerExcept ==
    /\ pc = "inner_except"
    /\ reported' = reported \cup {table}
    /\ pc' = "outer_except"
    /\ UNCHANGED <<idx, table, closeCount, exitCode, stage, localFiles,
                   badRows, loaded, rejected, issued, skipped, runs>>

\* lines 98-100: except Exception: print 'CRITICAL ERROR', exit(1)
OuterExcept ==
    /\ pc = "outer_except"
    /\ exitCode' = 1
    /\ pc' = "finally"
    /\ UNCHANGED <<idx, table, closeCount, stage, localFiles, badRows,
                   loaded, rejected, issued, skipped, reported, runs>>

\* lines 102-104: finally: conn.close(); then the process ends
Finally ==
    /\ pc = "finally"
    /\ closeCount' = closeCount + 1
    /\ pc' = "exited"
    /\ UNCHANGED <<idx, table, exitCode, stage, localFiles, badRows, loaded,
                   rejected, issued, skipped, reported, runs>>

\* lines 106-107: the script is started again over the same stage
Restart ==
    /\ pc = "exited"
    /\ runs < MaxRuns
    /\ runs' = runs + 1
    /\ pc' = "start"
    /\ idx' = 0
    /\ table' = 0
    /\ closeCount' = 0
    /\ exitCode' = 0
    /\ \E d \in LocalDirs :
         /\ localFiles' = FilesOf(d)
         /\ badRows' = BadRowsOf(d)
    /\ loaded' = {}
    /\ rejected' = [t \in DATA_TABLES_TO_EXPORT |-> 0]
    /\ issued' = <<>>
    /\ skipped' = {}
    /\ reported' = {}
    /\ UNCHANGED stage

Next ==
    \/ GetConnection
    \/ Cursor
    \/ UseSchema
    \/ CreateStage
    \/ ForNext
    \/ PutTodo
    \/ CopyInto
    \/ PutDone
    \/ Remove
    \/ InnerExcept
    \/ OuterExcept
    \/ Finally
    \/ Restart

Spec == Init /\ [][Next]_vars

TypeOK ==
    /\ pc \in {"start", "cursor", "use_schema", "create_stage", "for",
               "put_todo", "copy", "put_done", "remove", "inner_except",
               "outer_except", "finally", "exited"}
    /\ idx \in 0..NumTables
    /\ table \in 0..NumTables
    /\ closeCount \in Nat
    /\ exitCode \in {0, 1}
    /\ stage \in [Prefixes -> SUBSET DATA_TABLES_TO_EXPORT]
    /\ localFiles \subseteq DATA_TABLES_TO_EXPORT
    /\ loaded \subseteq DATA_TABLES_TO_EXPORT
    /\ skipped \subseteq DATA_TABLES_TO_EXPORT
    /\ reported \subseteq DATA_TABLES_TO_EXPORT
    /\ runs \in 1..MaxRuns

\* ---- the run's history, read from `issued` ----
Issued(stmt, t, r) ==
    \E i \in 1..Len(issued) : issued[i] = Call(stmt, t, r)
Raised(stmt, t) ==
    \E i \in 1..Len(issued) :
        /\ issued[i].stmt = stmt
        /\ issued[i].table = t
        /\ issued[i].result \in Errors
AnyRaised == \E i \in 1..Len(issued) : issued[i].result \in Errors
TableStmts == {"put_todo", "copy", "put_done", "remove"}
Order == <<"put_todo", "copy", "put_done", "remove">>
InTodo(t) == t \in stage[PATH_TODO]
InDone(t) == t \in stage[PATH_DONE]
Terminated == pc = "exited"

C2_CopyFailureAborts ==
    \A t \in DATA_TABLES_TO_EXPORT :
        Raised("copy", t) =>
            /\ InTodo(t)
            /\ \A i \in 1..Len(issued) : issued[i].table <= t
            /\ issued[Len(issued)].stmt = "copy"
            /\ Terminated => exitCode # 0

C2_Witness ==
    /\ Terminated
    /\ \E t \in DATA_TABLES_TO_EXPORT :
         /\ Issued("copy", t, "Exception")
         /\ t + 1 \in localFiles

\* C3: on every path of main() after the connection has been acquired,
\* conn.close() has been called exactly once when the process ends, and
\* never twice.
C3_ClosedExactlyOnce ==
    /\ closeCount <= 1
    /\ (Terminated /\ Issued("connect", 0, "ok")) => closeCount = 1

\* C4: a table without a local file is skipped: no PUT, COPY or REMOVE is
\* issued for it, the loop goes on to the next table, and the run exits with
\* status 0 when no statement of a table raises.
C4_SkipMissingFile ==
    /\ \A i \in 1..Len(issued) :
         issued[i].stmt \in TableStmts => issued[i].table \in localFiles
    /\ \A t \in skipped : t \notin localFiles /\ idx >= t
    /\ (/\ Terminated
        /\ skipped # {}
        /\ \A t \in DATA_TABLES_TO_EXPORT, s \in TableStmts : ~Raised(s, t))
       => /\ exitCode = 0
          /\ \A t \in DATA_TABLES_TO_EXPORT :
               t \in skipped \/ Issued("remove", t, "ok")

C4_Witness ==
    /\ Terminated
    /\ exitCode = 0
    /\ \E t \in skipped, u \in DATA_TABLES_TO_EXPORT :
         u > t /\ Issued("remove", u, "ok")

\* C5: the exit status is 1 iff one of the steps connect, USE SCHEMA, CREATE
\* STAGE, upload PUT, COPY, archive PUT, REMOVE raised, and 0 iff no step
\* raised; when an error occurs after the connection was acquired, the
\* connection has been closed when the process exits.
C5_ListedSteps ==
    {"connect", "use_schema", "create_stage", "put_todo", "copy",
     "put_done", "remove"}
C5_ExitStatus ==
    Terminated =>
        /\ exitCode = 1 <=>
             \E i \in 1..Len(issued) :
                 issued[i].stmt \in C5_ListedSteps /\ issued[i].result \in Errors
        /\ exitCode = 0 <=> ~AnyRaised
        /\ (AnyRaised /\ Issued("connect", 0, "ok")) => closeCount = 1

\* C6: at every stable point (before a run starts, after a run terminates,
\* across repeated runs) a table's file is under at most one of the prefixes
\* 'not_processed' and 'processed'.
C6_AtMostOnePrefix ==
    pc \in {"start", "exited"} =>
        \A t \in DATA_TABLES_TO_EXPORT : ~(InTodo(t) /\ InDone(t))

\* C7: whenever execution is past cur.execute(copy_sql) for a table, no row
\* of that table's file was rejected or skipped by the COPY INTO.
C7_StrictLoad ==
    \A t \in loaded : rejected[t] = 0

\* C8: the stage is created before any upload; tables are processed in list
\* order; per table the statements are PUT to 'not_processed', COPY, PUT to
\* 'processed', REMOVE, each issued at most once and only after the previous
\* call returned; nothing is issued for a table the loop has moved past.
C8_Sequential ==
    /\ \A i \in 1..Len(issued) :
         issued[i].stmt = "put_todo" =>
             \E j \in 1..(i - 1) : issued[j] = Call("create_stage", 0, "ok")
    /\ \A i, j \in 1..Len(issued) :
         i < j => /\ issued[i].table <= issued[j].table
                  /\ issued[i].result = "ok"
    /\ \A i \in 1..Len(issued) :
         issued[i].table >= 1 =>
             LET n == Cardinality({j \in 1..i : issued[j].table = issued[i].table})
             IN n <= Len(Order) /\ issued[i].stmt = Order[n]
    /\ \A i \in 1..Len(issued) : issued[i].table <= idx

C8_Witness ==
    \E t, u \in DATA_TABLES_TO_EXPORT :
        t < u /\ Issued("remove", t, "ok") /\ Issued("remove", u, "ok")

\* C9: once the PUT of a table's file to 'not_processed' has returned, the
\* file is under at least one of the two prefixes in every later state of
\* the run; the REMOVE is issued only after the PUT to 'processed' returned.
C9_NeverLost ==
    /\ \A t \in DATA_TABLES_TO_EXPORT :
         Issued("put_todo", t, "ok") => InTodo(t) \/ InDone(t)
    /\ \A i \in 1..Len(issued) :
         issued[i].stmt = "remove" =>
             \E j \in 1..(i - 1) :
                 issued[j] = Call("put_done", issued[i].table, "ok")

C9_Witness ==
    \E t \in DATA_TABLES_TO_EXPORT :
        /\ Issued("put_todo", t, "ok")
        /\ Issued("remove", t, "ok")
        /\ ~InTodo(t)
        /\ InDone(t)

\* C10: 'LOAD FAILED for <table>' is printed only if that table's COPY INTO
\* raised, and then the table has not been loaded and its file is still
\* under 'not_processed'; a failed archive PUT or REMOVE is not reported.
C10_ReportOnlyLoadFailure ==
    \A t \in reported :
        /\ Raised("copy", t)
        /\ t \notin loaded
        /\ InTodo(t)
====
